---- MODULE Spec2Model ----
(***************************************************************************)
(* A model of joi-validate-patch (lib/joi-validate-patch.js): the schema   *)
(* pointer resolver getValidator, the per-operation validator validateStep *)
(* and the batch orchestrator validate.                                    *)
(*                                                                         *)
(* JavaScript values are modelled as tagged strings ("num:4" is the number *)
(* 4, "str:4" the string '4'), JSON pointers as sequences of tokens in     *)
(* which "/" is the separator character and every other token is a run of  *)
(* non-separator characters, objects as records.  An exception leaving a   *)
(* function is the value THROWN (getValidator, validateStep) or the        *)
(* control state "thrown" (validate).                                      *)
(***************************************************************************)
EXTENDS Naturals, Sequences, FiniteSets, TLC

VARIABLES
    pc,         \* where validate is: "idle", "loop", "finish", "returned", "thrown"
    args,       \* the arguments of the call: patch, schema, options, cb
    patch,      \* the patch after normalization: an array of steps
    options,    \* the options after the merge with defaultOptions
    cb,         \* whether a callback is held after normalization
    idx,        \* the index patch.every is at (from 1)
    sanitized,  \* the normalized steps gathered
    errors,     \* the errors gathered
    ret,        \* what validate returned
    cbLog,      \* the (error, value) pairs the callback was invoked with
    nCalls,     \* how many times validateStep was called (history)
    lastResult, \* what the last call of validateStep gave (history)
    rpc,        \* where getValidator is: "idle", "start", "walk", "done", "thrown"
    rSchema,    \* getValidator's schema (by name)
    rPointer,   \* getValidator's pointer
    rParts,     \* the pieces of the pointer still to walk
    rCursor,    \* the cursor
    rPrev,      \* the cursor before the last piece (history)
    rKey        \* the last piece walked (history)

vars == <<pc, args, patch, options, cb, idx, sanitized, errors, ret, cbLog, nCalls,
          lastResult, rpc, rSchema, rPointer, rParts, rCursor, rPrev, rKey>>

valVars == <<pc, args, patch, options, cb, idx, sanitized, errors, ret, cbLog, nCalls,
             lastResult>>

resVars == <<rpc, rSchema, rPointer, rParts, rCursor, rPrev, rKey>>

\* Longest patch array handed to validate.
MaxPatchLen == 3
\* Deepest pointer (number of segments) walked by the resolver specification.
MaxDepth == 3

(***************************************************************************)
(* JavaScript values and truthiness                                        *)
(***************************************************************************)

\* A property that is not set.
UNDEF == "undefined"

\* The values an operation may carry: 0, 4, '', '4', 'blah', false, null and
\* a document object.
Values == {"num:0", "num:4", "str:", "str:4", "str:blah", "bool:false", "null", "obj:doc"}

\* JavaScript's ToBoolean on the modelled values.
Truthy(v) == v \notin {UNDEF, "num:0", "str:", "bool:false", "null"}

(***************************************************************************)
(* JSON pointers                                                           *)
(***************************************************************************)

Segments == {"id", "description", "favoriteToys", "meta", "current", "weight",
             "multi", "bare", "extra", "0", "-", "blah"}

RECURSIVE PointerOf(_)
\* The pointer string "/s1/s2/..." of a sequence of segment names.
PointerOf(segs) ==
    IF segs = <<>> THEN <<>>
    ELSE <<"/", Head(segs)>> \o PointerOf(Tail(segs))

RECURSIVE SegSeqs(_)
\* All sequences of at most n segment names.
SegSeqs(n) ==
    IF n = 0 THEN {<<>>}
    ELSE SegSeqs(n - 1) \cup
         {Append(s, x) : s \in {t \in SegSeqs(n - 1) : Len(t) = n - 1}, x \in Segments}

RECURSIVE SplitRec(_, _)
\* String.prototype.split('/'): cur is the piece being read.
SplitRec(s, cur) ==
    IF s = <<>> THEN <<cur>>
    ELSE IF Head(s) = "/" THEN <<cur>> \o SplitRec(Tail(s), <<>>)
    ELSE SplitRec(Tail(s), Append(cur, Head(s)))

\* (pointer || '').split('/').splice(1): the pieces after the first one.
Parts(pointer) == Tail(SplitRec(pointer, <<>>))

(***************************************************************************)
(* Schema nodes                                                            *)
(***************************************************************************)

\* The objects undefined and null (the two falsy cursors the resolver
\* produces; null is also the empty error and the empty value of a result),
\* and an exception leaving the function.
UNDEFINED == [kind |-> "undefined"]
NULL == [kind |-> "null"]
THROWN == [kind |-> "TypeError"]

Falsy(node) == node.kind \in {"undefined", "null"}

\* A Joi rule whose _inner.children is no array (undefined for a string or a
\* number rule, null for Joi.object() without keys) and without item rules.
JoiLeaf(type, label, required) ==
    [kind |-> "joi", type |-> type, label |-> label, required |-> required,
     hasChildren |-> FALSE, children |-> <<>>, items |-> <<>>]

\* Joi.object().keys({...}): _inner.children is an array of {key, schema}.
JoiKeys(label, required, children) ==
    [kind |-> "joi", type |-> "object", label |-> label, required |-> required,
     hasChildren |-> TRUE, children |-> children, items |-> <<>>]

\* Joi.array().items(...): _inner.items holds the item rules.
JoiArray(label, items) ==
    [kind |-> "joi", type |-> "array", label |-> label, required |-> FALSE,
     hasChildren |-> FALSE, children |-> <<>>, items |-> items]

\* A plain object of the schema, not wrapped in Joi (isJoi is undefined).
Plain(fields) ==
    [kind |-> "plain", type |-> "object", label |-> "value", required |-> FALSE,
     hasChildren |-> TRUE, children |-> fields, items |-> <<>>]

Child(key, schema) == [key |-> key, schema |-> schema]

\* The schema of the test suite: a plain object whose meta is a Joi object
\* (Joi compiles the plain `current` inside it into a Joi object).
TestSchema ==
    Plain(<<
        Child("id", JoiLeaf("string", "id", TRUE)),
        Child("description", JoiLeaf("string", "description", FALSE)),
        Child("favoriteToys", JoiArray("favoriteToys", <<JoiLeaf("string", "toy", FALSE)>>)),
        Child("meta", JoiKeys("meta", FALSE, <<
            Child("current", JoiKeys("current", FALSE, <<
                Child("weight", JoiLeaf("number", "weight", FALSE))>>))>>))
    >>)

\* A schema wholly wrapped in Joi, as in the README, whose root is required;
\* multi declares two item rules, bare none, and extra is Joi.object()
\* without keys.
CatSchema ==
    JoiKeys("cat", TRUE, <<
        Child("id", JoiLeaf("string", "id", TRUE)),
        Child("description", JoiLeaf("string", "description", FALSE)),
        Child("favoriteToys", JoiArray("favoriteToys", <<JoiLeaf("string", "toy", FALSE)>>)),
        Child("multi", JoiArray("multi",
            <<JoiLeaf("string", "a", FALSE), JoiLeaf("number", "b", FALSE)>>)),
        Child("bare", JoiArray("bare", <<>>)),
        Child("extra", JoiLeaf("object", "extra", FALSE)),
        Child("meta", JoiKeys("meta", FALSE, <<
            Child("current", JoiKeys("current", FALSE, <<
                Child("weight", JoiLeaf("number", "weight", FALSE))>>))>>))
    >>)

SchemaNames == {"test", "cat"}

SchemaOf(name) == IF name = "test" THEN TestSchema ELSE CatSchema

(***************************************************************************)
(* getValidator                                                            *)
(***************************************************************************)

\* The entries of a children list whose key is the given pointer piece.
Matching(children, key) ==
    {i \in 1..Len(children) : <<children[i].key>> = key}

\* Array.prototype.find / property lookup: the first matching entry.
FirstMatch(children, key) ==
    children[CHOOSE i \in Matching(children, key) :
                 \A j \in Matching(children, key) : i <= j]

\* A change of arrayItem: the first item rule of any array that has one.
arrayItemFirst(cursor) ==
    IF Len(cursor.items) >= 1 THEN cursor.items[1] ELSE UNDEFINED

\* The cursor below an array rule: its item rule when it declares exactly one.
arrayItem(cursor) ==
    IF Len(cursor.items) = 1 THEN cursor.items[1] ELSE UNDEFINED

\* One call of the forEach callback of getValidator: the cursor after the
\* piece `key`.  cursor._inner.children.find raises a TypeError when the rule
\* has no children array (undefined for a scalar rule, null for Joi.object()).
stepCursor(cursor, key) ==
    IF Falsy(cursor) THEN cursor
    ELSE IF cursor.kind = "plain"
         THEN IF Matching(cursor.children, key) = {} THEN UNDEFINED
              ELSE FirstMatch(cursor.children, key).schema
    ELSE IF cursor.type = "array"
         THEN arrayItem(cursor)
    ELSE IF ~cursor.hasChildren THEN THROWN
    ELSE IF Matching(cursor.children, key) = {} THEN NULL
         ELSE FirstMatch(cursor.children, key).schema

RECURSIVE walk(_, _)
\* parts.forEach(...): an exception ends the walk.
walk(cursor, parts) ==
    IF parts = <<>> \/ cursor = THROWN THEN cursor
    ELSE walk(stepCursor(cursor, Head(parts)), Tail(parts))

getValidator(schema, pointer) == walk(schema, Parts(pointer))

(***************************************************************************)
(* Patch steps, options and errors                                         *)
(***************************************************************************)

\* supportMap: the properties each operation needs.
supportMap ==
    [add |-> {"path", "value"}, remove |-> {"path"}, replace |-> {"path", "value"},
     copy |-> {"from", "path"}, move |-> {"from", "path"}, test |-> {"path", "value"}]

OpKinds == DOMAIN supportMap

\* defaultOptions.
defaultOptions ==
    [abortEarly |-> TRUE, allowedOps |-> OpKinds, allowUnknown |-> FALSE, convert |-> TRUE]

\* A patch step that is an object: `fields` are the properties it has.
Step(op, fields, path, from, value) ==
    [t |-> "object", op |-> op, fields |-> fields,
     path |-> IF "path" \in fields THEN path ELSE <<>>,
     from |-> IF "from" \in fields THEN from ELSE <<>>,
     value |-> IF "value" \in fields THEN value ELSE UNDEF]

\* A patch step that is no object: a string, a number or null.
Scalar(t) ==
    [t |-> t, op |-> UNDEF, fields |-> {}, path |-> <<>>, from |-> <<>>, value |-> UNDEF]

\* patchStep[prop] is truthy.
HasProp(step, prop) ==
    /\ prop \in step.fields \cup {"op"}
    /\ CASE prop = "op" -> step.t = "object" /\ step.op # UNDEF
         [] prop = "from" -> step.from # <<>>
         [] prop = "path" -> step.path # <<>>
         [] prop = "value" -> Truthy(step.value)
         [] OTHER -> FALSE

\* path.replace('/', '.').substr(1): the first separator becomes a dot and the
\* first character goes.
RenderPath(path) ==
    LET seps == {i \in 1..Len(path) : path[i] = "/"}
        first == CHOOSE i \in seps : \A j \in seps : i <= j
        dotted == IF seps = {} THEN path ELSE [path EXCEPT ![first] = "."]
    IN Tail(dotted)

Msg(text, arg, ptr) == [text |-> text, arg |-> arg, ptr |-> ptr]

\* new ValidationError(message, patchStep) for a patch step: the truthy
\* properties among op, from, path, value are copied, the path rendered.
StepError(message, step) ==
    [name |-> "ValidationError", message |-> message,
     props |-> {p \in {"op", "from", "path", "value"} : HasProp(step, p)},
     op |-> IF HasProp(step, "op") THEN step.op ELSE UNDEF,
     from |-> IF HasProp(step, "from") THEN step.from ELSE <<>>,
     path |-> IF HasProp(step, "path") THEN RenderPath(step.path) ELSE <<>>,
     value |-> IF HasProp(step, "value") THEN step.value ELSE UNDEF,
     errors |-> <<>>]

\* new ValidationError(message): no patch step, no properties.
PlainError(message) ==
    [name |-> "ValidationError", message |-> message, props |-> {},
     op |-> UNDEF, from |-> <<>>, path |-> <<>>, value |-> UNDEF, errors |-> <<>>]

\* new ValidationError('patch invalid', {errors: errors}).
AggregateError(errs) ==
    [name |-> "ValidationError", message |-> Msg("patch invalid", <<>>, <<>>),
     props |-> {"errors"},
     op |-> UNDEF, from |-> <<>>, path |-> <<>>, value |-> UNDEF, errors |-> errs]

(***************************************************************************)
(* The collaborators: fast-json-patch's shape check and Joi.validate       *)
(***************************************************************************)

\* jsonpatch.validate([step]) returns an error: the step is no object, its op
\* is unknown, or a property its op needs is missing.
formatErr(step) ==
    \/ step.t # "object"
    \/ step.op \notin OpKinds
    \/ ~(supportMap[step.op] \subseteq step.fields)

\* Joi.validate(value, rule, opts): {error, value}.  A plain object is
\* compiled to an optional object rule.  An absent value fails a required
\* rule; a string rule takes non-empty strings, a number rule numbers and,
\* when converting, numeric strings (normalized to the number), an object
\* rule objects; false and null fit no rule.
JoiValidate(value, rule, opts) ==
    LET required == rule.kind = "joi" /\ rule.required
        bad(reason) == [error |-> Msg("joi", <<rule.label, reason>>, <<>>), value |-> value]
    IN IF value = UNDEF
       THEN IF required THEN bad("is required") ELSE [error |-> NULL, value |-> UNDEF]
       ELSE CASE rule.type = "string" ->
                   IF value \in {"str:4", "str:blah"}
                   THEN [error |-> NULL, value |-> value]
                   ELSE bad("must be a string")
              [] rule.type = "number" ->
                   IF value \in {"num:0", "num:4"} THEN [error |-> NULL, value |-> value]
                   ELSE IF value = "str:4" /\ opts.convert
                        THEN [error |-> NULL, value |-> "num:4"]
                   ELSE bad("must be a number")
              [] rule.type = "object" ->
                   IF value = "obj:doc" THEN [error |-> NULL, value |-> value]
                   ELSE bad("must be an object")
              [] OTHER -> bad("must be an array")

(***************************************************************************)
(* validateStep                                                            *)
(***************************************************************************)

\* fail(msg): {error: new ValidationError(msg, step), value: null}.
fail(message, step) == [error |-> StepError(message, step), value |-> NULL]

\* pass(): {error: null, value: clean}.
pass(clean) == [error |-> NULL, value |-> clean]

\* opts: the options without allowedOps, as handed to Joi.
JoiOpts(o) ==
    [abortEarly |-> o.abortEarly, allowUnknown |-> o.allowUnknown,
     convert |-> o.convert]

\* if(step.from): the property is set and is not the empty string.
hasFrom(step) == "from" \in step.fields /\ step.from # <<>>

\* if(rule && step.value): the value is truthy.
hasValue(step) == Truthy(step.value)

\* A check that found nothing wrong: validateStep goes on.
CONTINUE == [kind |-> "continue"]

\* if(allowed.indexOf(step.op) < 0) ...; if(!rule && !opts.allowUnknown) ...
checkTarget(rule, o, step) ==
    IF step.op \notin o.allowedOps
    THEN fail(Msg("disallowed op", <<step.op>>, <<>>), step)
    ELSE IF Falsy(rule) /\ ~o.allowUnknown
    THEN fail(Msg("invalid path", <<>>, step.path), step)
    ELSE CONTINUE

\* A change of checkSource: the source of a move is not asked to accept an
\* absent value.
checkSourceNoMove(schema, opts, step) ==
    IF ~hasFrom(step) THEN CONTINUE
    ELSE LET source == getValidator(schema, step.from)
         IN IF source = THROWN THEN THROWN
            ELSE IF Falsy(source) /\ ~opts.allowUnknown
            THEN fail(Msg("invalid source", <<>>, step.path), step)
            ELSE CONTINUE

\* if(step.from) { ... }: the source is resolved; an unknown source fails
\* unless allowUnknown, and the source of a move must accept an absent value.
checkSource(schema, opts, step) ==
    IF ~hasFrom(step) THEN CONTINUE
    ELSE LET source == getValidator(schema, step.from)
         IN IF source = THROWN THEN THROWN
            ELSE IF Falsy(source) /\ ~opts.allowUnknown
            THEN fail(Msg("invalid source", <<>>, step.path), step)
            ELSE IF /\ ~Falsy(source) /\ step.op = "move"
                    /\ JoiValidate(UNDEF, source, opts).error # NULL
            THEN fail(JoiValidate(UNDEF, source, opts).error, step)
            ELSE CONTINUE

\* if(rule && step.op == 'remove') { ... }: the rule must accept an absent value.
checkRemove(rule, opts, step) ==
    IF /\ ~Falsy(rule) /\ step.op = "remove"
       /\ JoiValidate(UNDEF, rule, opts).error # NULL
    THEN fail(JoiValidate(UNDEF, rule, opts).error, step)
    ELSE CONTINUE

\* if(rule && step.value) { ... } return pass(): a truthy value is validated
\* and replaced in the copy by its normalized form.
checkValue(rule, opts, step) ==
    IF ~Falsy(rule) /\ hasValue(step)
    THEN LET result == JoiValidate(step.value, rule, opts)
         IN IF result.error # NULL THEN fail(result.error, step)
            ELSE pass([step EXCEPT !.value = result.value])
    ELSE pass(step)

validateStep(schema, o, step) ==
    IF formatErr(step)
    THEN fail(Msg("ValidationError: malformed operation", <<>>, <<>>), step)
    ELSE LET opts == JoiOpts(o)
             rule == getValidator(schema, step.path)
             target == checkTarget(rule, o, step)
             source == checkSource(schema, opts, step)
             remove == checkRemove(rule, opts, step)
         IN IF rule = THROWN THEN THROWN
            ELSE IF target # CONTINUE THEN target
            ELSE IF source # CONTINUE THEN source
            ELSE IF remove # CONTINUE THEN remove
            ELSE checkValue(rule, opts, step)

(***************************************************************************)
(* The inputs of validate                                                  *)
(***************************************************************************)

\* The target paths and the source paths of the steps.
PathSegs ==
    {<<>>, <<"id">>, <<"description">>, <<"blah">>, <<"id", "blah">>,
     <<"favoriteToys", "0">>, <<"favoriteToys", "-">>, <<"multi", "0">>,
     <<"meta", "current", "weight">>}

FromSegs == {<<>>, <<"id">>, <<"description">>, <<"blah">>, <<"id", "blah">>}

\* Every step with the properties of its op or fewer, and steps of an
\* unknown op.
AllSteps ==
    UNION {{Step(op, fields, PointerOf(p), PointerOf(f), v) :
               fields \in SUBSET supportMap[op], p \in PathSegs, f \in FromSegs,
               v \in Values} : op \in OpKinds}
    \cup {Step("bogus", {"path"}, PointerOf(p), <<>>, UNDEF) : p \in PathSegs}

\* The steps of the patch arrays.
BatchSteps ==
    {Step("move", {"from", "path"}, PointerOf(<<"blah">>), PointerOf(<<"description">>), UNDEF),
     Step("replace", {"path", "value"}, PointerOf(<<"meta", "current", "weight">>), <<>>, "str:4"),
     Step("remove", {"path"}, PointerOf(<<"blah">>), <<>>, UNDEF),
     Step("remove", {"path"}, PointerOf(<<"id">>), <<>>, UNDEF),
     Step("remove", {"path"}, PointerOf(<<"id", "blah">>), <<>>, UNDEF)}

RECURSIVE SeqsUpTo(_, _)
\* The sequences over S of length at most n.
SeqsUpTo(S, n) ==
    IF n = 0 THEN {<<>>}
    ELSE SeqsUpTo(S, n - 1) \cup
         {Append(q, x) : q \in {r \in SeqsUpTo(S, n - 1) : Len(r) = n - 1}, x \in S}

\* The patch argument: an array of steps (its elements), or one value that
\* is no array: a step, a string, a number or null (held in `elems`).
PatchArgs ==
    {[isArray |-> TRUE, elems |-> q] : q \in SeqsUpTo(BatchSteps, MaxPatchLen)}
    \cup {[isArray |-> FALSE, elems |-> <<x>>] :
             x \in AllSteps \cup {Scalar("string"), Scalar("number"), Scalar("null")}}

\* The options argument: undefined, a function (the callback in the place of
\* the options), or an object that sets some options to a value other than
\* the default.
OptionArgs ==
    {[t |-> "undefined", set |-> {}], [t |-> "function", set |-> {}]}
    \cup {[t |-> "object", set |-> k] :
             k \in SUBSET {"abortEarly", "allowedOps", "allowUnknown", "convert"}}

\* The value an options object gives an option it sets.
Given(key) ==
    CASE key = "abortEarly" -> FALSE
      [] key = "allowedOps" -> {"add"}
      [] key = "allowUnknown" -> TRUE
      [] key = "convert" -> FALSE

\* Object.assign({}, defaultOptions, options || {}).
Merge(defaults, o) ==
    [key \in DOMAIN defaults |-> IF key \in o.set THEN Given(key) ELSE defaults[key]]

(***************************************************************************)
(* validate                                                                *)
(***************************************************************************)

\* Nothing returned yet.
NORESULT == [kind |-> "none"]

\* A change of firstFalsy: only the empty array counts.
firstFalsyEmptyOnly(p) == p = <<>>

\* !patch[0]: the array is empty or its first element is falsy.
firstFalsy(p) == p = <<>> \/ p[1].t = "null"

\* A change of optionsIsCallback: a function in the place of the options is
\* not taken for the callback.
optionsIsCallbackNever(o, c) == FALSE

\* !cb && typeof options == 'function'.
optionsIsCallback(o, c) == ~c /\ o.t = "function"

\* A change of stops: the loop goes on after an error.
stopsNever(result, o) == FALSE

\* if(result.error) { ...; if(options.abortEarly) return false; }
stops(result, o) == result.error # NULL /\ o.abortEarly

ResolverIdle ==
    /\ rpc = "idle" /\ rSchema = "test" /\ rPointer = <<>> /\ rParts = <<>>
    /\ rCursor = UNDEFINED /\ rPrev = UNDEFINED /\ rKey = <<>>

ValidateIdle ==
    /\ pc = "idle"
    /\ args = [patch |-> [isArray |-> TRUE, elems |-> <<>>], schema |-> "test",
               options |-> [t |-> "undefined", set |-> {}], cb |-> FALSE]
    /\ patch = <<>> /\ options = defaultOptions /\ cb = FALSE /\ idx = 1
    /\ sanitized = <<>> /\ errors = <<>> /\ ret = NORESULT /\ cbLog = <<>>
    /\ nCalls = 0 /\ lastResult = NORESULT

Init == ValidateIdle /\ ResolverIdle

\* validate(patch, schema, options, cb) up to the loop: the arguments are
\* normalized and an empty patch is recorded as an error.
CallWith(p, sn, o, c) ==
    LET wrapped == IF p.isArray THEN p.elems ELSE <<p.elems[1]>>
        swap == optionsIsCallback(o, c)
        merged == Merge(defaultOptions, IF swap THEN [t |-> "object", set |-> {}] ELSE o)
        empty == firstFalsy(wrapped)
    IN /\ pc = "idle"
       /\ args' = [patch |-> p, schema |-> sn, options |-> o, cb |-> c]
       /\ cb' = (c \/ swap)
       /\ options' = merged
       /\ errors' = IF empty THEN <<PlainError(Msg("empty patch", <<>>, <<>>))>> ELSE <<>>
       /\ patch' = IF empty THEN <<>> ELSE wrapped
       /\ sanitized' = <<>>
       /\ idx' = 1
       /\ pc' = IF empty THEN "finish" ELSE "loop"
       /\ UNCHANGED <<ret, cbLog, nCalls, lastResult>>
       /\ UNCHANGED resVars

\* One call of the callback of patch.every: the step is validated, its value
\* and its error are gathered, and the loop ends after the last step or, with
\* abortEarly, after an error.  An exception of validateStep leaves validate.
Every ==
    /\ pc = "loop"
    /\ idx <= Len(patch)
    /\ LET result == validateStep(SchemaOf(args.schema), options, patch[idx])
       IN /\ nCalls' = nCalls + 1
          /\ lastResult' = result
          /\ IF result = THROWN
             THEN /\ pc' = "thrown"
                  /\ UNCHANGED <<sanitized, errors, idx>>
             ELSE /\ sanitized' = IF result.value # NULL
                                  THEN Append(sanitized, result.value) ELSE sanitized
                  /\ errors' = IF result.error # NULL
                               THEN Append(errors, result.error) ELSE errors
                  /\ idx' = idx + 1
                  /\ pc' = IF stops(result, options) \/ idx = Len(patch)
                           THEN "finish" ELSE "loop"
    /\ UNCHANGED <<args, patch, options, cb, ret, cbLog>>
    /\ UNCHANGED resVars

\* A change of encapsulate: the first error stands for all.
encapsulateFirst(errs) ==
    IF Len(errs) >= 1 THEN errs[1] ELSE NULL

\* The errors as one error: none, the only one, or an aggregate.
encapsulate(errs) ==
    IF Len(errs) = 1 THEN errs[1]
    ELSE IF Len(errs) > 1 THEN AggregateError(errs)
    ELSE NULL

\* The end of validate: the callback is called, or the result returned.
Finish ==
    /\ pc = "finish"
    /\ LET err == encapsulate(errors)
       IN IF cb
          THEN /\ cbLog' = Append(cbLog, [error |-> err, value |-> sanitized])
               /\ ret' = UNDEFINED
          ELSE /\ ret' = [error |-> err, value |-> sanitized]
               /\ UNCHANGED cbLog
    /\ pc' = "returned"
    /\ UNCHANGED <<args, patch, options, cb, idx, sanitized, errors, nCalls, lastResult>>
    /\ UNCHANGED resVars

\* A call of validate: with options, with a callback in their place, or with
\* both.
Call ==
    /\ pc = "idle"
    /\ \E p \in PatchArgs, sn \in SchemaNames, o \in OptionArgs, c \in BOOLEAN :
          /\ ~(c /\ o.t = "function")
          /\ CallWith(p, sn, o, c)

Next == Call \/ Every \/ Finish

Spec == Init /\ [][Next]_vars

(***************************************************************************)
(* getValidator, piece by piece                                            *)
(***************************************************************************)

AllPointers == {PointerOf(segs) : segs \in SegSeqs(MaxDepth)}

InitResolve ==
    /\ ValidateIdle
    /\ rpc = "start"
    /\ rSchema \in SchemaNames
    /\ rPointer \in AllPointers
    /\ rParts = <<>> /\ rCursor = UNDEFINED /\ rPrev = UNDEFINED /\ rKey = <<>>

\* const parts = ...; let cursor = schema.
ResolveBegin ==
    /\ rpc = "start"
    /\ rParts' = Parts(rPointer)
    /\ rCursor' = SchemaOf(rSchema)
    /\ rpc' = "walk"
    /\ UNCHANGED <<rSchema, rPointer, rPrev, rKey>>
    /\ UNCHANGED valVars

\* One call of the forEach callback.
ResolveEach ==
    /\ rpc = "walk"
    /\ rParts # <<>>
    /\ rPrev' = rCursor
    /\ rKey' = Head(rParts)
    /\ rCursor' = stepCursor(rCursor, Head(rParts))
    /\ rParts' = Tail(rParts)
    /\ rpc' = IF stepCursor(rCursor, Head(rParts)) = THROWN THEN "thrown" ELSE "walk"
    /\ UNCHANGED <<rSchema, rPointer>>
    /\ UNCHANGED valVars

\* return cursor.
ResolveReturn ==
    /\ rpc = "walk"
    /\ rParts = <<>>
    /\ rpc' = "done"
    /\ UNCHANGED <<rSchema, rPointer, rParts, rCursor, rPrev, rKey>>
    /\ UNCHANGED valVars

NextResolve == ResolveBegin \/ ResolveEach \/ ResolveReturn

SpecResolve == InitResolve /\ [][NextResolve]_vars

\* The walk and the operator validateStep uses agree.
WalkIsGetValidator ==
    /\ rpc = "done" => rCursor = getValidator(SchemaOf(rSchema), rPointer)
    /\ rpc = "thrown" => getValidator(SchemaOf(rSchema), rPointer) = THROWN

TypeOK ==
    /\ pc \in {"idle", "loop", "finish", "returned", "thrown"}
    /\ idx \in 1..(MaxPatchLen + 1)
    /\ nCalls \in 0..MaxPatchLen
    /\ Len(cbLog) <= 1

(***************************************************************************)
(* What the properties speak of                                            *)
(***************************************************************************)

\* validateStep was called, and gave a result (it raised no exception).
Stepped == nCalls >= 1 /\ lastResult # THROWN

\* The step of the last call of validateStep, and its schema.
theStep == patch[nCalls]
theSchema == SchemaOf(args.schema)

\* The rule of the step's path and of its from pointer.
theRule == getValidator(theSchema, theStep.path)
theSource == getValidator(theSchema, theStep.from)

\* A pointer resolved to a schema rule; to no schema node.
Resolved(node) == node # THROWN /\ ~Falsy(node)
Absent(node) == node # THROWN /\ Falsy(node)

\* The step is well-formed and its op allowed.
WellFormedAllowed ==
    /\ theStep.t = "object"
    /\ theStep.op \in OpKinds
    /\ supportMap[theStep.op] \subseteq theStep.fields
    /\ theStep.op \in options.allowedOps

\* The engine's verdict on a value (UNDEF: an absent value) under a rule.
Engine(value, rule) == JoiValidate(value, rule, JoiOpts(options))
Rejects(value, rule) == Engine(value, rule).error # NULL

\* C1: a well-formed, allowed operation that carries a value (0, the empty
\* string, false and null included) and whose path resolves to a rule is
\* judged by the engine: it fails when the engine rejects the value, and
\* otherwise passes with the engine's normalized value in the output.
C1_ValueIsValidated ==
    (/\ Stepped /\ WellFormedAllowed
     /\ "value" \in theStep.fields
     /\ Resolved(theRule))
    => IF Rejects(theStep.value, theRule)
       THEN lastResult.error # NULL
       ELSE /\ lastResult.error = NULL
            /\ lastResult.value = [theStep EXCEPT !.value = Engine(theStep.value, theRule).value]

\* C2: a remove whose path resolves to a rule fails exactly when the rule
\* rejects an absent value, and a move whose source resolves to a rule that
\* rejects an absent value fails whatever its target path.
C2_RequiredFieldsStay ==
    /\ (/\ Stepped /\ WellFormedAllowed
        /\ theStep.op = "remove"
        /\ Resolved(theRule))
       => (lastResult.error # NULL <=> Rejects(UNDEF, theRule))
    /\ (/\ Stepped /\ WellFormedAllowed
        /\ theStep.op = "move"
        /\ Resolved(theSource)
        /\ Rejects(UNDEF, theSource))
       => lastResult.error # NULL

\* The case of C3: a well-formed, allowed operation whose target path
\* resolves to no schema node, with allowUnknown set.
UnknownTargetAllowed ==
    /\ Stepped /\ WellFormedAllowed
    /\ Absent(theRule)
    /\ options.allowUnknown

\* C3 as stated: every such operation, a copy or a move from any source
\* included, passes with its output equal to its input.
C3_UnknownTargetPasses ==
    UnknownTargetAllowed => lastResult = [error |-> NULL, value |-> theStep]

\* The source of a move resolves to a rule that rejects an absent value.
MoveFromRequired ==
    /\ theStep.op = "move"
    /\ Resolved(theSource)
    /\ Rejects(UNDEF, theSource)

\* C3, amended: such an operation passes with its output equal to its input
\* unless it is a move whose source rule rejects an absent value; a move
\* whose non-empty from pointer resolves to such a rule fails with the
\* error of that rule.
C3_UnknownTargetPassesButMove ==
    UnknownTargetAllowed =>
        /\ ~MoveFromRequired => lastResult = [error |-> NULL, value |-> theStep]
        /\ (MoveFromRequired /\ theStep.from # <<>>) =>
               /\ lastResult.value = NULL
               /\ lastResult.error # NULL
               /\ lastResult.error.message = Engine(UNDEF, theSource).error

\* Reached: an operation on an unknown target passed unchanged under
\* allowUnknown, and a move of a required field to an unknown target failed.
C3_Witness ==
    /\ UnknownTargetAllowed
    /\ theStep.op = "copy" /\ Resolved(theSource)
    /\ lastResult = [error |-> NULL, value |-> theStep]

C3_WitnessMove ==
    /\ UnknownTargetAllowed /\ MoveFromRequired
    /\ lastResult.error # NULL

\* C8: validate never raises an exception: it returns, or hands the callback,
\* a result, also when a path goes below a rule without named children.
C8_NeverThrows == pc # "thrown"

\* The error C9 expects of the step: the first check of its list that fails
\* (NULL when none does).
FirstFailure ==
    IF ~(/\ theStep.t = "object" /\ theStep.op \in OpKinds
         /\ supportMap[theStep.op] \subseteq theStep.fields)
    THEN Msg("ValidationError: malformed operation", <<>>, <<>>)
    ELSE IF theStep.op \notin options.allowedOps
    THEN Msg("disallowed op", <<theStep.op>>, <<>>)
    ELSE IF Absent(theRule) /\ ~options.allowUnknown
    THEN Msg("invalid path", <<>>, theStep.path)
    ELSE IF "from" \in theStep.fields /\ Absent(theSource) /\ ~options.allowUnknown
    THEN Msg("invalid source", <<>>, theStep.path)
    ELSE IF /\ theStep.op = "move" /\ "from" \in theStep.fields
            /\ Resolved(theSource) /\ Rejects(UNDEF, theSource)
    THEN Engine(UNDEF, theSource).error
    ELSE IF theStep.op = "remove" /\ Resolved(theRule) /\ Rejects(UNDEF, theRule)
    THEN Engine(UNDEF, theRule).error
    ELSE IF /\ "value" \in theStep.fields /\ Resolved(theRule)
            /\ Rejects(theStep.value, theRule)
    THEN Engine(theStep.value, theRule).error
    ELSE NULL

\* C9: the checks are applied in the order shape, allowed op, target path,
\* source path, move source, remove target, value, and the operation's error
\* is that of the first check that fails.
C9_FirstFailingCheck ==
    Stepped =>
        IF FirstFailure = NULL THEN lastResult.error = NULL
        ELSE lastResult.error # NULL /\ lastResult.error.message = FirstFailure

(***************************************************************************)
(* The properties of validate                                              *)
(***************************************************************************)

\* The operations of the call: the elements of the array, or the one value
\* given (null is no operation: the patch is missing).
Operations ==
    IF ~args.patch.isArray /\ args.patch.elems[1].t = "null" THEN <<>>
    ELSE args.patch.elems

\* What validateStep gives for the i-th operation.
Outcome(i) == validateStep(theSchema, options, Operations[i])

Failed(r) == r # THROWN /\ r.error # NULL

\* The result of validate, as returned or as handed to the callback.
Delivered == IF cb THEN cbLog[1] ELSE ret

RECURSIVE ErrorsFrom(_)
\* The errors of the failing operations from the i-th on, in input order.
ErrorsFrom(i) ==
    IF i > Len(Operations) THEN <<>>
    ELSE (IF Failed(Outcome(i)) THEN <<Outcome(i).error>> ELSE <<>>) \o ErrorsFrom(i + 1)

\* What C4 says of a call that returned with abortEarly false.
CollectsAll ==
    LET errs == ErrorsFrom(1)
    IN /\ nCalls = Len(Operations)
       /\ errors = errs
       /\ Len(errs) = 0 => Delivered.error = NULL
       /\ Len(errs) = 1 => Delivered.error = errs[1] /\ "errors" \notin Delivered.error.props
       /\ Len(errs) >= 2 => /\ "errors" \in Delivered.error.props
                            /\ Delivered.error.errors = errs

\* C4 as stated: with abortEarly false every operation is processed in input
\* order, the error list holds one error per failing operation in input
\* order, and the error returned is null, the only error, or an aggregate of
\* the list.
C4_CollectAll ==
    /\ (~options.abortEarly /\ nCalls >= 1) => lastResult = Outcome(nCalls)
    /\ (pc = "returned" /\ ~options.abortEarly) => CollectsAll

\* C4, amended: the same of a patch that is not empty; an empty patch
\* returns the empty-patch error though no operation failed.
C4_CollectAllNonEmpty ==
    /\ (~options.abortEarly /\ nCalls >= 1) => lastResult = Outcome(nCalls)
    /\ (pc = "returned" /\ ~options.abortEarly /\ Operations # <<>>) => CollectsAll
    /\ (pc = "returned" /\ ~options.abortEarly /\ Operations = <<>>) =>
           /\ nCalls = 0
           /\ Delivered.error = PlainError(Msg("empty patch", <<>>, <<>>))

\* Reached: three operations, the first and the last failing, gathered in an
\* aggregate of two errors.
C4_Witness ==
    /\ pc = "returned" /\ ~options.abortEarly
    /\ Len(Operations) = 3
    /\ Failed(Outcome(1)) /\ ~Failed(Outcome(2)) /\ Failed(Outcome(3))
    /\ Len(Delivered.error.errors) = 2
    /\ Len(Delivered.value) = 1

\* The operations that fail or raise, and the first of them.
Stopping == {i \in 1..Len(Operations) : Outcome(i) = THROWN \/ Failed(Outcome(i))}
FirstStopping == CHOOSE i \in Stopping : \A j \in Stopping : i <= j

\* C5: with abortEarly true no operation after the first failing one is
\* validated, the error returned is that operation's own and no aggregate,
\* and the value is the array of the normalized copies of the operations
\* before it, in input order.
C5_AbortEarly ==
    options.abortEarly =>
        /\ Stopping # {} => nCalls <= FirstStopping
        /\ pc = "returned" =>
              LET n == IF Stopping = {} THEN Len(Operations) ELSE FirstStopping - 1
              IN /\ Delivered.value = [i \in 1..n |-> Outcome(i).value]
                 /\ Stopping # {} =>
                       /\ nCalls = FirstStopping
                       /\ Delivered.error = Outcome(FirstStopping).error
                       /\ "errors" \notin Delivered.error.props
                 /\ (Stopping = {} /\ Operations # <<>>) =>
                       nCalls = Len(Operations) /\ Delivered.error = NULL

\* Reached: a call that stopped at its second operation of three, a failing
\* one, leaving the third unvalidated.
C5_Witness ==
    /\ pc = "returned" /\ options.abortEarly
    /\ Len(Operations) = 3 /\ FirstStopping = 2 /\ nCalls = 2
    /\ Failed(Outcome(3))
    /\ Len(Delivered.value) = 1
    /\ Delivered.value[1].value = "num:4"

\* The kinds of missing or empty input of C6.
EmptyArray == args.patch.isArray /\ args.patch.elems = <<>>
NullInput == ~args.patch.isArray /\ args.patch.elems[1].t = "null"
ScalarInput == ~args.patch.isArray /\ args.patch.elems[1].t \in {"string", "number"}

EmptyPatchError == PlainError(Msg("empty patch", <<>>, <<>>))

\* No operation is validated and the empty-patch error, which no operation
\* gives, comes with an empty value.
AnswersEmptyPatch ==
    /\ nCalls = 0
    /\ pc = "returned" => Delivered = [error |-> EmptyPatchError, value |-> <<>>]

\* C6 as stated: for the empty array, null and a scalar that is no array,
\* validate validates no operation and returns the empty-patch error, which no
\* operation gives, with an empty value.
C6_EmptyInput ==
    /\ (pc # "idle" /\ (EmptyArray \/ NullInput \/ ScalarInput)) => AnswersEmptyPatch
    /\ (Stepped /\ lastResult.error # NULL) => lastResult.error # EmptyPatchError

\* C6, amended: so it is for the empty array and null; a string or a number
\* is wrapped as the one step of a patch, validated, and fails as a malformed
\* operation, with an empty value.
C6_EmptyOrScalarInput ==
    /\ (pc # "idle" /\ (EmptyArray \/ NullInput)) => AnswersEmptyPatch
    /\ (Stepped /\ lastResult.error # NULL) => lastResult.error # EmptyPatchError
    /\ (pc = "returned" /\ ScalarInput) =>
           /\ nCalls = 1
           /\ Delivered.value = <<>>
           /\ Delivered.error # NULL
           /\ Delivered.error =
                  StepError(Msg("ValidationError: malformed operation", <<>>, <<>>),
                            args.patch.elems[1])

\* Reached: null answered by the empty-patch error, and a string answered by
\* the error of a malformed operation.
C6_Witness ==
    /\ pc = "returned" /\ NullInput
    /\ Delivered = [error |-> EmptyPatchError, value |-> <<>>]

C6_WitnessScalar ==
    /\ pc = "returned" /\ ScalarInput /\ nCalls = 1
    /\ Delivered.error.message.text = "ValidationError: malformed operation"

\* A callback was supplied: as the fourth argument, or in the place of the options.
CallbackSupplied == args.cb \/ args.options.t = "function"

\* C7: with a callback, validate has called it exactly once when it returns,
\* with the pair of the error and the value, and returns nothing; without
\* one it returns the pair and calls nothing; nothing is delivered before.
C7_CallbackOrReturn ==
    /\ pc = "returned" =>
          LET pair == [error |-> encapsulate(errors), value |-> sanitized]
          IN IF CallbackSupplied
             THEN cbLog = <<pair>> /\ ret = UNDEFINED
             ELSE cbLog = <<>> /\ ret = pair
    /\ pc # "returned" => cbLog = <<>> /\ ret = NORESULT

\* Reached: a callback in the place of the options called with an error.
C7_Witness ==
    /\ pc = "returned"
    /\ args.options.t = "function" /\ ~args.cb
    /\ Len(cbLog) = 1 /\ cbLog[1].error # NULL
    /\ ret = UNDEFINED

(***************************************************************************)
(* The properties of getValidator                                          *)
(***************************************************************************)

IsArrayRule(node) == node.kind = "joi" /\ node.type = "array"

\* C10: below an array rule with exactly one item rule every piece, an index
\* or '-', gives that item rule; below one with no or several item rules the
\* cursor is absent; an absent cursor stays absent whatever follows; and a
\* pointer ending at the array gives the array rule.
C10_ArrayStepping ==
    /\ (rKey # <<>> /\ IsArrayRule(rPrev) /\ Len(rPrev.items) = 1) =>
           rCursor = rPrev.items[1]
    /\ (rKey # <<>> /\ IsArrayRule(rPrev) /\ Len(rPrev.items) # 1) => Falsy(rCursor)
    /\ (rKey # <<>> /\ Falsy(rPrev)) => Falsy(rCursor)
    /\ rpc = "done" =>
           \A name \in {"favoriteToys", "multi", "bare"} :
               /\ (rSchema = "cat" \/ name = "favoriteToys") /\ rPointer = <<"/", name>>
                     => IsArrayRule(rCursor) /\ rCursor.label = name
               /\ (/\ Len(rPointer) >= 4 /\ SubSeq(rPointer, 1, 2) = <<"/", name>>
                   /\ name # "favoriteToys") => Falsy(rCursor)
               /\ (/\ Len(rPointer) = 4 /\ SubSeq(rPointer, 1, 2) = <<"/", name>>
                   /\ name = "favoriteToys") => rCursor = JoiLeaf("string", "toy", FALSE)

\* Reached: the append marker below a one-item array gave the item rule, and
\* an index below a two-item array gave nothing, which the next piece kept.
C10_Witness ==
    /\ rpc = "done" /\ rKey = <<"-">>
    /\ IsArrayRule(rPrev) /\ Len(rPrev.items) = 1
    /\ rCursor = rPrev.items[1]

C10_WitnessAbsent ==
    /\ rpc = "done" /\ rSchema = "cat"
    /\ rPointer = PointerOf(<<"multi", "0", "id">>)
    /\ Falsy(rPrev) /\ Falsy(rCursor)

====
